---------------------------- MODULE Spec2Model ----------------------------
(***************************************************************************)
(* LifeLink (app.py): the order lifecycle and driver-assignment workflow.  *)
(*                                                                         *)
(* The store is the SQLite database: the tables hospitals, organ_listings  *)
(* and transport_requests.  Rows are never deleted and SQLite numbers them *)
(* 1, 2, ..., so a table is a sequence and a row's id is its index.        *)
(*                                                                         *)
(* Every Flask request runs in a handler (a thread of the server) with its *)
(* own connection.  query() reads the committed store; execute() runs one  *)
(* statement and commits it.  A handler is therefore a sequence of atomic  *)
(* store statements, and handlers interleave between statements.  Code     *)
(* between two statements touches only the handler's locals and is folded  *)
(* into the statement that precedes or follows it.                         *)
(***************************************************************************)
EXTENDS Integers, Sequences, FiniteSets

\* ------------------------------------------------------------------ bounds
NumHandlers  == 2   \* request handlers that may be in flight together
MaxOrders    == 2   \* rows of transport_requests
MaxListings  == 2   \* rows of organ_listings
MaxHospitals == 2   \* rows of hospitals
NumDrivers   == 2   \* rows of drivers, and driver ids a form may carry
MaxClock     == 1   \* seconds CURRENT_TIMESTAMP may advance

\* A NULL column.  Row ids start at 1, and a form's driver_id of 0 is
\* rejected as missing before it reaches the store, so 0 names no row.
NULL == 0

Handlers == 1..NumHandlers

\* ------------------------------------------------------------ form inputs
\* order ids and listing ids a URL may carry; an id past the table's last row
\* names no row (tables start empty and grow to their bound)
OrderIds   == 1..MaxOrders
ListingIds == 1..MaxListings
\* request.form.get("driver_id", type=int): 0 stands for absent, unparsable or 0
DriverIds  == 0..NumDrivers
\* the form's hospital_id: 0 stands for absent or empty
HospitalIds == 0..MaxHospitals
\* request.form.get("status"): "" stands for absent or empty
StatusInputs == {"", "Requested", "Assigned", "En-route", "Delivered", "Cancelled"}
\* free text of a form, as a sequence of characters
TextInputs == {<< >>, <<" ">>, <<" ", "a">>}
\* priority_status and availability_status of the new-listing form
PriorityInputs     == {"Emergency", "Critical", "Urgent", "Normal"}
AvailabilityInputs == {"Available", "Unavailable"}
Methods == {"GET", "POST"}
\* organ_type and blood_type of the new-listing form
OrganTypeInputs == {<<"K">>, <<"k">>, <<"L">>}
BloodTypeInputs == {<<"O">>}
\* the catalog's query string: q, type (absent: "All") and availability
\* (absent: "All")
All == <<"A", "l", "l">>
QueryInputs == {<< >>, <<" ", "K">>, <<"o">>, <<"z">>}
TypeInputs  == {All, << >>, <<"k">>, <<"L">>}
AvailabilityFilters == {"All", "Available", "Unavailable", "available"}

\* ------------------------------------------------------------------ state
VARIABLES
    hospitals,           \* the number of rows of hospitals (ids 1..hospitals)
    drivers,             \* the number of rows of drivers (ids 1..drivers)
    organ_listings,      \* the table organ_listings
    transport_requests,  \* the table transport_requests
    handler,             \* per handler: where it is and its locals
    g,                   \* per handler: the application context of its request
    response,            \* what the last step returned to its client, if anything
    now                  \* CURRENT_TIMESTAMP, in seconds

vars == <<hospitals, drivers, organ_listings, transport_requests, handler, g,
          response, now>>

Idle == [pc |-> "idle"]

\* flask.g of a request that has not touched the store: no _db attribute, and
\* no sqlite3.connect() made for it
FreshContext == [_db |-> "None", connects |-> 0]

\* get_db: the request's connection, opened if g has none
get_db_connects_anew(ctx) == [_db |-> "open", connects |-> ctx.connects + 1]

get_db(ctx) ==
    IF ctx._db = "None"
    THEN [_db |-> "open", connects |-> ctx.connects + 1]
    ELSE ctx

\* close_db, the teardown of the application context: the connection is
\* closed if g has one
close_db(ctx) ==
    IF ctx._db # "None" THEN [ctx EXCEPT !._db = "closed"] ELSE ctx

\* The contexts as a step finds them: the context of a request that has ended
\* is popped and a request starts with a fresh one.
Popped ==
    [q \in Handlers |-> IF handler[q].pc = "idle" THEN FreshContext ELSE g[q]]

\* The server hands a new request to a free handler; handlers are alike, so
\* the model takes the first free one.  The model looks at one reply at a
\* time: a new request is taken once the last reply has left (Respond).
FreeHandler(p) ==
    /\ response.route = "none"
    /\ handler[p].pc = "idle"
    /\ \A q \in 1..(p - 1) : handler[q].pc # "idle"

\* request.args of the catalog, as sent; none for other requests
NoArgs == [q |-> << >>, type |-> << >>, availability |-> ""]

\* request.form of a POST for transport, as sent; none where no form is read
NoForm ==
    [method |-> "", hospital_id |-> 0, destination |-> << >>,
     contact_phone |-> << >>]

\* No response: the step did not end a request.
NoResponse ==
    [route |-> "none", id |-> NULL, driver_id |-> NULL, status |-> "",
     code |-> 0, msg |-> "", form |-> NoForm, order_id |-> NULL,
     args |-> NoArgs, rows |-> << >>]

\* A reply, with the request it answers: its route, the id in its URL and the
\* driver_id and status of its form.
Reply(route, id, driver_id, status, code, msg) ==
    [route |-> route, id |-> id, driver_id |-> driver_id, status |-> status,
     code |-> code, msg |-> msg, form |-> NoForm, order_id |-> NULL,
     args |-> NoArgs, rows |-> << >>]

\* The page of a view: the ids of the rows it lists, in the order listed.
ViewReply(route, id, driver_id, msg, rows) ==
    [Reply(route, id, driver_id, "", 200, msg) EXCEPT !.rows = rows]

\* The reply to a request for transport, with the form it answers and, in a
\* redirect to order_confirmation, the order_id it names.
FormReply(listing_id, form, order_id, code, msg) ==
    [Reply("request_transport", listing_id, NULL, "", code, msg)
        EXCEPT !.form = form, !.order_id = order_id]

\* ----------------------------------------------------------------- helpers
\* str.strip() on a form text
RECURSIVE LStrip(_)
LStrip(s) ==
    IF s # << >> /\ Head(s) = " " THEN LStrip(Tail(s)) ELSE s

RECURSIVE RStrip(_)
RStrip(s) ==
    IF s # << >> /\ s[Len(s)] = " " THEN RStrip(SubSeq(s, 1, Len(s) - 1)) ELSE s

Strip(s) == RStrip(LStrip(s))

\* SELECT * FROM <table> WHERE id = ?  (one=True): the row exists
RowExists(table, id) == id \in 1..Len(table)

\* SELECT COUNT(*) ... WHERE driver_id = ? AND status IN ('Assigned','En-route')
driver_has_active_order_assigned_only(driver_id) ==
    Cardinality({o \in 1..Len(transport_requests) :
        /\ transport_requests[o].driver_id = driver_id
        /\ transport_requests[o].status = "Assigned"}) > 0

driver_has_active_order(driver_id) ==
    Cardinality({o \in 1..Len(transport_requests) :
        /\ transport_requests[o].driver_id = driver_id
        /\ transport_requests[o].status \in {"Assigned", "En-route"}}) > 0

\* listing["availability_status"] != "Available" is refused
ListingAvailable_any(listing) == TRUE

ListingAvailable(listing) == listing.availability_status = "Available"

\* "Order is no longer available" unless the row read has status Requested
OrderClaimable_not_delivered(rows, order_id) ==
    RowExists(rows, order_id) /\ rows[order_id].status # "Delivered"

OrderClaimable(rows, order_id) ==
    RowExists(rows, order_id) /\ rows[order_id].status = "Requested"

allowed_statuses == {"Requested", "Assigned", "En-route", "Delivered"}

\* driver_update_status, the tests on the order it has read, in the order the
\* code makes them: the refusal's code and message, or code 0 when the
\* UPDATE goes ahead
UpdateStatusTests_delivered_untested(rows, order_id, new_status) ==
    IF ~RowExists(rows, order_id)
    THEN [code |-> 404, msg |-> "Order not found"]
    ELSE IF new_status \notin allowed_statuses
    THEN [code |-> 400, msg |-> "Invalid status"]
    ELSE [code |-> 0, msg |-> ""]

UpdateStatusTests_status_first(rows, order_id, new_status) ==
    IF new_status \notin allowed_statuses
    THEN [code |-> 400, msg |-> "Invalid status"]
    ELSE IF ~RowExists(rows, order_id)
    THEN [code |-> 404, msg |-> "Order not found"]
    ELSE IF rows[order_id].status = "Delivered"
    THEN [code |-> 400, msg |-> "Delivered orders cannot be modified"]
    ELSE [code |-> 0, msg |-> ""]

UpdateStatusTests(rows, order_id, new_status) ==
    IF ~RowExists(rows, order_id)
    THEN [code |-> 404, msg |-> "Order not found"]
    ELSE IF rows[order_id].status = "Delivered"
    THEN [code |-> 400, msg |-> "Delivered orders cannot be modified"]
    ELSE IF new_status \notin allowed_statuses
    THEN [code |-> 400, msg |-> "Invalid status"]
    ELSE [code |-> 0, msg |-> ""]

\* ORDER BY two keys, ascending: the first key decides, then the second
KeyLess(a, b) == a[1] < b[1] \/ (a[1] = b[1] /\ a[2] < b[2])

\* The sequences in which a SELECT ... ORDER BY may return the rows ids, whose
\* sort keys are key[id]: least key first; SQL leaves the order of rows with
\* equal keys open.
OrderBy(ids, key) ==
    {s \in [1..Cardinality(ids) -> ids] :
        \A i, j \in 1..Cardinality(ids) :
            i < j => s[i] # s[j] /\ ~KeyLess(key[s[j]], key[s[i]])}

\* str.lower() and SQL lower(), on the letters the model's texts use
LowerChar(c) ==
    CASE c = "A" -> "a"
      [] c = "K" -> "k"
      [] c = "L" -> "l"
      [] c = "O" -> "o"
      [] OTHER -> c

Lower_identity(text) == text

Lower(text) == [i \in 1..Len(text) |-> LowerChar(text[i])]

\* column LIKE '%q%' for a q already in lower case, on a column already in
\* lower case (the model's texts hold no % or _)
Like(column, q) ==
    \E i \in 0..(Len(column) - Len(q)) : SubSeq(column, i + 1, i + Len(q)) = q

\* organ_listings: ORDER BY CASE priority_status WHEN 'Emergency' THEN 1
\*   WHEN 'Critical' THEN 2 WHEN 'Urgent' THEN 3 ELSE 4 END
organ_listings_rank(priority_status) ==
    CASE priority_status = "Emergency" -> 1
      [] priority_status = "Critical" -> 2
      [] priority_status = "Urgent" -> 3
      [] OTHER -> 4

\* organ_listings: the WHERE clause the handler builds, for row
\* (hospital_name, city and state are the hospital's texts, which the model
\* leaves empty; q is stripped and in lower case)
organ_listings_where(row, q, typ, availability) ==
    /\ (typ # << >> /\ typ # All) => Lower(row.organ_type) = Lower(typ)
    /\ availability = "Available" => row.availability_status = "Available"
    /\ availability = "Unavailable" => row.availability_status = "Unavailable"
    /\ q # << >> => \/ Like(Lower(row.organ_type), q)
                    \/ Like(Lower(row.blood_type), q)

\* organ_listings: SELECT * FROM organ_listings WHERE ... ORDER BY <rank>,
\*   created_at DESC
organ_listings_query(rows, q, typ, availability) ==
    OrderBy({l \in 1..Len(rows) :
                organ_listings_where(rows[l], q, typ, availability)},
            [l \in 1..Len(rows) |->
                <<organ_listings_rank(rows[l].priority_status),
                  0 - rows[l].created_at>>])

\* driver_portal, available_orders: ORDER BY CASE tr.priority_status WHEN
\*   'Emergency' THEN 1 WHEN 'Urgent' THEN 2 WHEN 'Critical' THEN 3 ELSE 4 END
available_orders_rank_as_catalog(priority_status) ==
    CASE priority_status = "Emergency" -> 1
      [] priority_status = "Critical" -> 2
      [] priority_status = "Urgent" -> 3
      [] OTHER -> 4

available_orders_rank(priority_status) ==
    CASE priority_status = "Emergency" -> 1
      [] priority_status = "Urgent" -> 2
      [] priority_status = "Critical" -> 3
      [] OTHER -> 4

\* driver_portal, available_orders: SELECT ... FROM transport_requests tr
\*   WHERE tr.status = 'Requested' AND (tr.driver_id IS NULL)
\*   ORDER BY <rank>, tr.created_at ASC
available_orders(rows) ==
    OrderBy({o \in 1..Len(rows) :
                rows[o].status = "Requested" /\ rows[o].driver_id = NULL},
            [o \in 1..Len(rows) |->
                <<available_orders_rank(rows[o].priority_status),
                  rows[o].created_at>>])

\* driver_portal, selected_driver: the driver the page is shown for: the one
\* named, if he is a driver; else the first driver by name (any, names are
\* not modelled); none while there is no driver
selected_driver(selected_id) ==
    IF drivers = 0 THEN {NULL}
    ELSE IF selected_id \in 1..drivers THEN {selected_id}
    ELSE 1..drivers

\* driver_portal, current_order: SELECT ... WHERE tr.driver_id = ? AND
\*   tr.status IN ('Assigned','En-route') ORDER BY tr.created_at DESC LIMIT 1
current_order(rows, did) ==
    LET held == {o \in 1..Len(rows) :
                    /\ did # NULL
                    /\ rows[o].driver_id = did
                    /\ rows[o].status \in {"Assigned", "En-route"}}
    IN IF held = {} THEN {NULL}
       ELSE {o \in held : \A x \in held : rows[x].created_at <= rows[o].created_at}

\* UPDATE transport_requests SET driver_id = ?, status = 'Assigned',
\*   updated_at = CURRENT_TIMESTAMP WHERE id = ?
ClaimRow(row, driver_id) ==
    [row EXCEPT !.driver_id = driver_id, !.status = "Assigned", !.updated_at = now]

\* UPDATE transport_requests SET status = ?, driver_id = NULL,
\*   updated_at = CURRENT_TIMESTAMP WHERE id = ?
RevertRow_keep_driver(row, new_status) ==
    [row EXCEPT !.status = new_status, !.updated_at = now]

RevertRow(row, new_status) ==
    [row EXCEPT !.status = new_status, !.driver_id = NULL, !.updated_at = now]

\* UPDATE transport_requests SET status = ?, updated_at = CURRENT_TIMESTAMP
\*   WHERE id = ?
StatusRow_clears_driver(row, new_status) ==
    [row EXCEPT !.status = new_status, !.driver_id = NULL, !.updated_at = now]

StatusRow(row, new_status) ==
    [row EXCEPT !.status = new_status, !.updated_at = now]

\* UPDATE organ_listings SET availability_status = 'Unavailable' WHERE id = ?
MarkUnavailable_forgotten(listing) == listing

MarkUnavailable(listing) ==
    [listing EXCEPT !.availability_status = "Unavailable"]

\* UPDATE <table> SET ... WHERE id = ?: the row with that id, if there is one
UpdateWhereId(table, id, new_row) ==
    IF RowExists(table, id) THEN [table EXCEPT ![id] = new_row] ELSE table

\* ------------------------------------------------------------------- Init
\* seed_if_needed: the store as first served; the model starts from empty
\* tables and fills them through the routes.
Init ==
    /\ hospitals = 0
    /\ drivers = 0
    /\ organ_listings = << >>
    /\ transport_requests = << >>
    /\ handler = [p \in Handlers |-> Idle]
    /\ g = [p \in Handlers |-> FreshContext]
    /\ response = NoResponse
    /\ now = 0

\* a request ends: the handler returns its reply and is free again
\* (after a query() or execute(), which call get_db; an exception or abort()
\* in the handler ends the request the same way); Flask then tears the
\* application context down
Finish(p, r) ==
    /\ handler' = [handler EXCEPT ![p] = Idle]
    /\ g' = [Popped EXCEPT ![p] = close_db(get_db(Popped[p]))]
    /\ response' = r

\* a request ends before its handler has called query() or execute()
FinishUnconnected(p, r) ==
    /\ handler' = [handler EXCEPT ![p] = Idle]
    /\ g' = [Popped EXCEPT ![p] = close_db(Popped[p])]
    /\ response' = r

\* a request goes on to its next store statement, after a query() or
\* execute()
Goto(p, locals) ==
    /\ handler' = [handler EXCEPT ![p] = locals]
    /\ g' = [Popped EXCEPT ![p] = get_db(Popped[p])]
    /\ response' = NoResponse

StoreUnchanged ==
    UNCHANGED <<hospitals, drivers, organ_listings, transport_requests, now>>

\* ------------------------------------------- POST /driver-claim/<order_id>
\* driver_claim, to the active-order count (the first store statement)
DriverClaimCount(p, order_id, driver_id) ==
    /\ FreeHandler(p)
    /\ StoreUnchanged
    /\ IF driver_id = 0
       THEN FinishUnconnected(p, Reply("driver_claim", order_id, driver_id,
                                       "", 400, "Driver required"))
       ELSE IF driver_has_active_order(driver_id)
       THEN Finish(p, Reply("driver_claim", order_id, driver_id, "", 400,
                            "Driver already has an active order"))
       ELSE Goto(p, [pc |-> "claim_select", order_id |-> order_id,
                     driver_id |-> driver_id])

\* driver_claim: the read of the order and the test of its status
DriverClaimSelect(p) ==
    /\ handler[p].pc = "claim_select"
    /\ StoreUnchanged
    /\ IF ~OrderClaimable(transport_requests, handler[p].order_id)
       THEN Finish(p, Reply("driver_claim", handler[p].order_id,
                            handler[p].driver_id, "", 400,
                            "Order is no longer available"))
       ELSE Goto(p, [handler[p] EXCEPT !.pc = "claim_update"])

\* driver_claim: the UPDATE, committed, and the redirect to the portal
DriverClaimUpdate(p) ==
    /\ handler[p].pc = "claim_update"
    /\ transport_requests' =
          UpdateWhereId(transport_requests, handler[p].order_id,
              ClaimRow(transport_requests[handler[p].order_id],
                       handler[p].driver_id))
    /\ UNCHANGED <<hospitals, drivers, organ_listings, now>>
    /\ Finish(p, Reply("driver_claim", handler[p].order_id,
                       handler[p].driver_id, "", 302, ""))

\* ----------------------------------- POST /driver-update-status/<order_id>
\* driver_update_status as it would be with a test of ownership: only the
\* driver an order names may update it
DriverUpdateStatusSelect_owner_only(p, order_id, driver_id, new_status) ==
    /\ FreeHandler(p)
    /\ StoreUnchanged
    /\ IF driver_id = 0 \/ new_status = ""
       THEN FinishUnconnected(p, Reply("driver_update_status", order_id,
                                       driver_id, new_status, 400,
                                       "Driver and status are required"))
       ELSE IF UpdateStatusTests(transport_requests, order_id, new_status).code # 0
       THEN Finish(p, Reply("driver_update_status", order_id, driver_id,
                new_status,
                UpdateStatusTests(transport_requests, order_id, new_status).code,
                UpdateStatusTests(transport_requests, order_id, new_status).msg))
       ELSE IF transport_requests[order_id].driver_id \notin {NULL, driver_id}
       THEN Finish(p, Reply("driver_update_status", order_id, driver_id,
                            new_status, 403, "Order belongs to another driver"))
       ELSE Goto(p, [pc |-> "status_update", order_id |-> order_id,
                     driver_id |-> driver_id, new_status |-> new_status])

\* driver_update_status, to the read of the order and the tests on it
DriverUpdateStatusSelect(p, order_id, driver_id, new_status) ==
    /\ FreeHandler(p)
    /\ StoreUnchanged
    /\ IF driver_id = 0 \/ new_status = ""
       THEN FinishUnconnected(p, Reply("driver_update_status", order_id,
                                       driver_id, new_status, 400,
                                       "Driver and status are required"))
       ELSE IF UpdateStatusTests(transport_requests, order_id, new_status).code # 0
       THEN Finish(p, Reply("driver_update_status", order_id, driver_id,
                new_status,
                UpdateStatusTests(transport_requests, order_id, new_status).code,
                UpdateStatusTests(transport_requests, order_id, new_status).msg))
       ELSE Goto(p, [pc |-> "status_update", order_id |-> order_id,
                     driver_id |-> driver_id, new_status |-> new_status])

\* driver_update_status: the UPDATE, committed, and the redirect
DriverUpdateStatusUpdate(p) ==
    /\ handler[p].pc = "status_update"
    /\ transport_requests' =
          UpdateWhereId(transport_requests, handler[p].order_id,
              IF handler[p].new_status = "Requested"
              THEN RevertRow(transport_requests[handler[p].order_id],
                             handler[p].new_status)
              ELSE StatusRow(transport_requests[handler[p].order_id],
                             handler[p].new_status))
    /\ UNCHANGED <<hospitals, drivers, organ_listings, now>>
    /\ Finish(p, Reply("driver_update_status", handler[p].order_id,
                       handler[p].driver_id, handler[p].new_status, 302, ""))

\* ------------------------- GET /organ-listings?q=&type=&availability=
\* organ_listings (the route): the catalog, filtered and sorted
OrganListings(p, q, typ, availability) ==
    /\ FreeHandler(p)
    /\ StoreUnchanged
    /\ \E rows \in organ_listings_query(organ_listings, Lower(Strip(q)), typ,
                                        availability) :
          Finish(p, [ViewReply("organ_listings", NULL, NULL,
                               "organ_listings.html", rows)
                        EXCEPT !.args = [q |-> q, type |-> typ,
                                         availability |-> availability]])

\* ------------------------------- GET/POST /request-transport/<listing_id>
\* request_transport, to the read of the listing (and of the hospital list
\* the form shows) and the tests that need no further read
RequestTransportListing(p, listing_id, method, hospital_id, destination, contact_phone) ==
    LET form == [method |-> method, hospital_id |-> hospital_id,
                 destination |-> destination, contact_phone |-> contact_phone]
    IN
    /\ FreeHandler(p)
    /\ StoreUnchanged
    /\ IF ~RowExists(organ_listings, listing_id)
       THEN Finish(p, FormReply(listing_id, NoForm, NULL, 404,
                                "Listing not found"))
       ELSE IF ~ListingAvailable(organ_listings[listing_id])
       THEN Finish(p, FormReply(listing_id, NoForm, NULL, 400,
                                "request_transport_unavailable.html"))
       ELSE IF method # "POST"
       THEN Finish(p, FormReply(listing_id, NoForm, NULL, 200,
                                "request_transport.html"))
       ELSE IF hospital_id = 0
       THEN Finish(p, FormReply(listing_id, form, NULL, 400,
                                "Hospital is required"))
       ELSE Goto(p, [pc |-> "request_hospital",
                     listing |-> [id |-> listing_id,
                                  priority_status |->
                                      organ_listings[listing_id].priority_status],
                     form |-> form,
                     hospital_id |-> hospital_id,
                     destination |-> Strip(destination),
                     contact_phone |-> Strip(contact_phone)])

\* request_transport: the read of the requesting hospital, and the test of
\* the address and the phone
RequestTransportHospital(p) ==
    /\ handler[p].pc = "request_hospital"
    /\ StoreUnchanged
    /\ IF handler[p].hospital_id \notin 1..hospitals
       THEN Finish(p, FormReply(handler[p].listing.id, handler[p].form, NULL,
                                400, "Selected hospital not found"))
       ELSE IF handler[p].destination = << >> \/ handler[p].contact_phone = << >>
       THEN Finish(p, FormReply(handler[p].listing.id, handler[p].form, NULL,
                                400,
                                "Delivery address and contact phone are required"))
       ELSE Goto(p, [pc |-> "request_insert", listing |-> handler[p].listing,
                     form |-> handler[p].form,
                     hospital |-> handler[p].hospital_id])

\* the row INSERT INTO transport_requests adds (status Requested, no driver);
\* a hospital's name is written as its id
NewRequest_listing_hospital(listing_id, hospital, priority_status) ==
    [listing_id |-> listing_id,
     hospital |-> organ_listings[listing_id].hospital_id,
     priority_status |-> priority_status, status |-> "Requested",
     driver_id |-> NULL, created_at |-> now, updated_at |-> now]

NewRequest(listing_id, hospital, priority_status) ==
    [listing_id |-> listing_id, hospital |-> hospital,
     priority_status |-> priority_status, status |-> "Requested",
     driver_id |-> NULL, created_at |-> now, updated_at |-> now]

\* request_transport: the INSERT, committed
RequestTransportInsert(p) ==
    /\ handler[p].pc = "request_insert"
    /\ Len(transport_requests) < MaxOrders
    /\ transport_requests' =
          Append(transport_requests,
                 NewRequest(handler[p].listing.id, handler[p].hospital,
                            handler[p].listing.priority_status))
    /\ UNCHANGED <<hospitals, drivers, organ_listings, now>>
    /\ Goto(p, [pc |-> "request_update", listing |-> handler[p].listing,
                form |-> handler[p].form,
                order_id |-> Len(transport_requests) + 1])

\* request_transport: the UPDATE of the listing, committed, and the redirect
\* to the order's confirmation
RequestTransportUpdate(p) ==
    /\ handler[p].pc = "request_update"
    /\ organ_listings' =
          UpdateWhereId(organ_listings, handler[p].listing.id,
                        MarkUnavailable(organ_listings[handler[p].listing.id]))
    /\ UNCHANGED <<hospitals, drivers, transport_requests, now>>
    /\ Finish(p, FormReply(handler[p].listing.id, handler[p].form,
                           handler[p].order_id, 302, "order_confirmation"))

\* ------------------------------------ GET /order-confirmation/<order_id>
\* order_confirmation: the order is read, with its listing and its driver
order_confirmation_unchecked(p, order_id) ==
    /\ FreeHandler(p)
    /\ StoreUnchanged
    /\ Finish(p, Reply("order_confirmation", order_id, NULL, "", 200,
                       "order_confirmation.html"))

order_confirmation(p, order_id) ==
    /\ FreeHandler(p)
    /\ StoreUnchanged
    /\ IF ~RowExists(transport_requests, order_id)
       THEN Finish(p, Reply("order_confirmation", order_id, NULL, "", 404,
                            "Order not found"))
       ELSE Finish(p, Reply("order_confirmation", order_id, NULL, "", 200,
                            "order_confirmation.html"))

\* ------------------------------------------ GET/POST /emergency-transport
\* emergency_transport.  A POST without one of the fields read as d[...] is
\* refused by Flask (400) while the statement's arguments are built.  The
\* INSERT names 10 columns and gives 11 values (NULL, seven placeholders,
\* 'Emergency', 'Requested', NULL): SQLite refuses to prepare it ("11 values
\* for 10 columns"), execute() raises, and the request is answered 500 with
\* nothing inserted.
EmergencyTransport(p, method, complete) ==
    /\ FreeHandler(p)
    /\ StoreUnchanged
    /\ IF method # "POST"
       THEN FinishUnconnected(p, Reply("emergency_transport", NULL, NULL, "",
                                       200, "emergency_transport.html"))
       ELSE IF ~complete
       THEN FinishUnconnected(p, Reply("emergency_transport", NULL, NULL, "",
                                       400, "Bad Request"))
       ELSE Finish(p, Reply("emergency_transport", NULL, NULL, "", 500,
                            "11 values for 10 columns"))

\* ------------------------------------------ POST /hospital-registration
hospital_registration(p) ==
    /\ FreeHandler(p)
    /\ hospitals < MaxHospitals
    /\ hospitals' = hospitals + 1
    /\ UNCHANGED <<drivers, organ_listings, transport_requests, now>>
    /\ Finish(p, Reply("hospital_registration", NULL, NULL, "", 302,
                       "for_hospitals"))

\* ------------------------------------------------------ POST /new-listing
\* new_listing: the hospital is read and the listing inserted (a form whose
\* other fields are present and well-formed).  Hospitals are never deleted, so
\* the read and the INSERT are one step.
new_listing(p, hospital_id, priority, availability, organ_type, blood_type) ==
    /\ FreeHandler(p)
    /\ IF hospital_id = 0
       THEN /\ StoreUnchanged
            /\ Finish(p, Reply("new_listing", NULL, NULL, "", 400,
                               "Hospital selection is required"))
       ELSE IF hospital_id \notin 1..hospitals
       THEN /\ StoreUnchanged
            /\ Finish(p, Reply("new_listing", NULL, NULL, "", 400,
                               "Hospital not found"))
       ELSE /\ Len(organ_listings) < MaxListings
            /\ organ_listings' =
                  Append(organ_listings,
                         [hospital_id |-> hospital_id,
                          organ_type |-> organ_type,
                          blood_type |-> blood_type,
                          priority_status |-> priority,
                          availability_status |-> availability,
                          created_at |-> now])
            /\ UNCHANGED <<hospitals, drivers, transport_requests, now>>
            /\ Finish(p, Reply("new_listing", NULL, NULL, "", 302,
                               "for_hospitals"))

\* ----------------------------------------- GET /driver-portal?driver_id=
\* driver_portal: the page of a driver, with his current order and the orders
\* available to claim.  The page's queries only read, and are taken as one
\* step.
driver_portal(p, selected_id) ==
    /\ FreeHandler(p)
    /\ StoreUnchanged
    /\ \E did \in selected_driver(selected_id) :
       \E current \in current_order(transport_requests, did) :
       \E available \in available_orders(transport_requests) :
          Finish(p, ViewReply("driver_portal", current, selected_id,
                              "driver_portal.html", available))

\* ------------------------------------------------------ POST /apply-driver
\* apply_driver: the application is filed and the driver registered.  The
\* table driver_applications is read by no route and is left out, so the two
\* INSERTs are one step.  A form without one of its fields is refused by
\* Flask (400) while the first statement's arguments are built.
apply_driver(p, complete) ==
    /\ FreeHandler(p)
    /\ IF ~complete
       THEN /\ StoreUnchanged
            /\ FinishUnconnected(p, Reply("apply_driver", NULL, NULL, "", 400,
                                          "Bad Request"))
       ELSE /\ drivers < NumDrivers
            /\ drivers' = drivers + 1
            /\ UNCHANGED <<hospitals, organ_listings, transport_requests, now>>
            /\ Finish(p, Reply("apply_driver", NULL, NULL, "", 302,
                               "driver_portal"))

\* ------------------------------------------------------------ the clock
\* CURRENT_TIMESTAMP moves on by a second
Tick ==
    /\ now < MaxClock
    /\ now' = now + 1
    /\ response' = NoResponse
    /\ g' = Popped
    /\ UNCHANGED <<hospitals, drivers, organ_listings, transport_requests, handler>>

\* ------------------------------------------------------------- the reply
\* the request is over and its reply has left the server
Respond ==
    /\ response.route # "none"
    /\ response' = NoResponse
    /\ g' = Popped
    /\ UNCHANGED <<hospitals, drivers, organ_listings, transport_requests, handler,
                   now>>

\* ------------------------------------------------------- specifications
\* the driver portal's routes
DriverRoutes(p) ==
    \/ \E o \in OrderIds, d \in DriverIds : DriverClaimCount(p, o, d)
    \/ DriverClaimSelect(p)
    \/ DriverClaimUpdate(p)
    \/ \E o \in OrderIds, d \in DriverIds, s \in StatusInputs :
          DriverUpdateStatusSelect(p, o, d, s)
    \/ DriverUpdateStatusUpdate(p)

\* the routes of the hospitals and their listings
ListingRoutes(p) ==
    \/ \E l \in ListingIds, m \in Methods, h \in HospitalIds,
          dest \in TextInputs, phone \in TextInputs :
          RequestTransportListing(p, l, m, h, dest, phone)
    \/ RequestTransportHospital(p)
    \/ RequestTransportInsert(p)
    \/ RequestTransportUpdate(p)
    \/ hospital_registration(p)
    \/ \E h \in HospitalIds, pr \in PriorityInputs, a \in AvailabilityInputs :
          new_listing(p, h, pr, a, <<"K">>, <<"O">>)

\* one step of handler p
Step(p) ==
    \/ DriverRoutes(p)
    \/ ListingRoutes(p)
    \/ \E m \in Methods, c \in BOOLEAN : EmergencyTransport(p, m, c)
    \/ \E c \in BOOLEAN : apply_driver(p, c)
    \/ \E o \in OrderIds : order_confirmation(p, o)
    \/ \E d \in DriverIds : driver_portal(p, d)
    \/ \E q \in QueryInputs, t \in TypeInputs, a \in AvailabilityFilters :
          OrganListings(p, q, t, a)

\* the server: handlers interleave between their store statements
Next == (\E p \in Handlers : Step(p)) \/ Respond \/ Tick

Spec == Init /\ [][Next]_vars

\* requests served one at a time: a request starts when no other is in flight
OthersIdle(p) == \A q \in Handlers \ {p} : handler[q].pc = "idle"

SeqNext == (\E p \in Handlers : OthersIdle(p) /\ Step(p)) \/ Respond

SeqSpec == Init /\ [][SeqNext]_vars

\* Where the driver portal's orders come from: hospitals register, a hospital
\* lists organs, and the hospitals `requesting' send well-formed requests for
\* their transport.
Intake(p, requesting) ==
    \/ hospital_registration(p)
    \/ new_listing(p, 1, "Critical", "Available", <<"K">>, <<"O">>)
    \/ \E l \in ListingIds, h \in requesting :
          RequestTransportListing(p, l, "POST", h, <<"a">>, <<"a">>)
    \/ RequestTransportHospital(p)
    \/ RequestTransportInsert(p)
    \/ RequestTransportUpdate(p)

\* The driver portal, one request at a time, with the intake of its orders,
\* emergency requests and the confirmation page.
DriverNext ==
    \/ \E p \in Handlers :
          /\ OthersIdle(p)
          /\ \/ DriverRoutes(p)
             \/ Intake(p, 1..MaxHospitals)
             \/ \E m \in Methods, c \in BOOLEAN : EmergencyTransport(p, m, c)
             \/ \E o \in OrderIds : order_confirmation(p, o)
    \/ Respond

DriverSpec == Init /\ [][DriverNext]_vars

\* The driver portal, one request at a time, with drivers applying and the
\* clock running: the second may change between any two steps.
ClockNext ==
    \/ \E p \in Handlers :
          /\ OthersIdle(p)
          /\ \/ DriverRoutes(p)
             \/ Intake(p, {1})
             \/ apply_driver(p, TRUE)
    \/ Respond
    \/ Tick

ClockSpec == Init /\ [][ClockNext]_vars

\* The driver portal's page, one request at a time, on a store that holds a
\* hospital and the drivers (hospital_registration, then apply_driver): the
\* hospital lists organs of every priority, their transport is requested,
\* drivers claim orders and give them back, the clock runs, and the page is
\* read for every driver.
PortalInit ==
    /\ hospitals = 1
    /\ drivers = NumDrivers
    /\ organ_listings = << >>
    /\ transport_requests = << >>
    /\ handler = [p \in Handlers |-> Idle]
    /\ g = [p \in Handlers |-> FreshContext]
    /\ response = NoResponse
    /\ now = 0

PortalNext ==
    \/ \E p \in Handlers :
          /\ OthersIdle(p)
          /\ \/ \E pr \in PriorityInputs :
                   new_listing(p, 1, pr, "Available", <<"K">>, <<"O">>)
             \/ \E l \in ListingIds :
                   RequestTransportListing(p, l, "POST", 1, <<"a">>, <<"a">>)
             \/ RequestTransportHospital(p)
             \/ RequestTransportInsert(p)
             \/ RequestTransportUpdate(p)
             \/ \E o \in OrderIds, d \in 1..NumDrivers :
                   DriverClaimCount(p, o, d)
             \/ DriverClaimSelect(p)
             \/ DriverClaimUpdate(p)
             \/ \E o \in OrderIds :
                   DriverUpdateStatusSelect(p, o, 1, "Requested")
             \/ DriverUpdateStatusUpdate(p)
             \/ \E d \in DriverIds : driver_portal(p, d)
    \/ Respond
    \/ Tick

PortalSpec == PortalInit /\ [][PortalNext]_vars

\* The catalog, one request at a time, on a store that holds a hospital: the
\* hospital lists organs of every type, priority and availability, the clock
\* runs, and the catalog is read with every query.
CatalogInit ==
    /\ hospitals = 1
    /\ drivers = 0
    /\ organ_listings = << >>
    /\ transport_requests = << >>
    /\ handler = [p \in Handlers |-> Idle]
    /\ g = [p \in Handlers |-> FreshContext]
    /\ response = NoResponse
    /\ now = 0

CatalogNext ==
    \/ \E p \in Handlers :
          /\ OthersIdle(p)
          /\ \/ \E pr \in PriorityInputs, a \in AvailabilityInputs,
                   t \in OrganTypeInputs, b \in BloodTypeInputs :
                   new_listing(p, 1, pr, a, t, b)
             \/ \E q \in QueryInputs, t \in TypeInputs,
                   a \in AvailabilityFilters : OrganListings(p, q, t, a)
    \/ Respond
    \/ Tick

CatalogSpec == CatalogInit /\ [][CatalogNext]_vars

\* The hospitals' side alone, one request at a time: hospitals register, list
\* organs and request their transport.
ListingNext ==
    \/ \E p \in Handlers : OthersIdle(p) /\ ListingRoutes(p)
    \/ Respond

ListingSpec == Init /\ [][ListingNext]_vars

\* The lifecycle under load: a store that holds a hospital and its Available
\* listings (hospital_registration, then new_listing), and clients that send
\* well-formed POSTs to the lifecycle routes, which interleave between their
\* store statements.
ConcInit ==
    /\ hospitals = 1
    /\ drivers = NumDrivers
    /\ organ_listings = [l \in 1..MaxListings |->
                            [hospital_id |-> 1, organ_type |-> <<"K">>,
                             blood_type |-> <<"O">>,
                             priority_status |-> "Critical",
                             availability_status |-> "Available",
                             created_at |-> 0]]
    /\ transport_requests = << >>
    /\ handler = [p \in Handlers |-> Idle]
    /\ g = [p \in Handlers |-> FreshContext]
    /\ response = NoResponse
    /\ now = 0

ConcStep(p) ==
    \/ \E o \in OrderIds, d \in 1..NumDrivers : DriverClaimCount(p, o, d)
    \/ DriverClaimSelect(p)
    \/ DriverClaimUpdate(p)
    \/ \E o \in OrderIds, d \in 1..NumDrivers, s \in allowed_statuses :
          DriverUpdateStatusSelect(p, o, d, s)
    \/ DriverUpdateStatusUpdate(p)
    \/ \E l \in ListingIds : RequestTransportListing(p, l, "POST", 1, <<"a">>, <<"a">>)
    \/ RequestTransportHospital(p)
    \/ RequestTransportInsert(p)
    \/ RequestTransportUpdate(p)
    \/ EmergencyTransport(p, "POST", TRUE)

ConcNext == (\E p \in Handlers : ConcStep(p)) \/ Respond

ConcSpec == ConcInit /\ [][ConcNext]_vars

\* ------------------------------------------------------------ properties
\* The statements below are written from the specification's words, with
\* their own vocabulary, and then checked against the handlers above.

Orders   == 1..Len(transport_requests)
Listings == 1..Len(organ_listings)

\* an active order: Assigned or En-route
IsActive(row) == row.status \in {"Assigned", "En-route"}

\* the orders a driver holds: active, and his
ActiveOrdersOf(d) ==
    {o \in Orders : transport_requests[o].driver_id = d
                    /\ IsActive(transport_requests[o])}

\* the order exists and is Requested
IsRequested(o) == o \in Orders /\ transport_requests[o].status = "Requested"

\* the step just taken answered a request to this route
Answered(route) == response'.route = route

\* C1: every driver has at most one order that is Assigned or En-route, in
\* every state the interleaved handlers can reach.
C1_AtMostOneActiveOrderPerDriver ==
    \A d \in 1..NumDrivers : Cardinality(ActiveOrdersOf(d)) <= 1

\* C2: Delivered is terminal: an order that is Delivered keeps its status and
\* its driver_id in every later step.
C2_DeliveredIsTerminal ==
    [][\A o \in Orders :
          transport_requests[o].status = "Delivered"
          => /\ transport_requests'[o].status = "Delivered"
             /\ transport_requests'[o].driver_id = transport_requests[o].driver_id
      ]_vars

\* C3: every change of an order's status follows one of the lifecycle edges
\* Requested->Assigned, Assigned->En-route, En-route->Delivered or
\* Assigned->Requested.
LifecycleEdges ==
    { <<"Requested", "Assigned">>, <<"Assigned", "En-route">>,
      <<"En-route", "Delivered">>, <<"Assigned", "Requested">> }

C3_OnlyLifecycleEdges ==
    [][\A o \in Orders :
          transport_requests'[o].status # transport_requests[o].status
          => <<transport_requests[o].status, transport_requests'[o].status>>
                \in LifecycleEdges
      ]_vars

\* C4 as claimed: an order has a driver_id if and only if it is Assigned or
\* En-route.
C4_DriverIffActive ==
    \A o \in Orders :
        (transport_requests[o].driver_id # NULL) <=> IsActive(transport_requests[o])

\* C4 as amended: an order that has a driver_id is Assigned, En-route or
\* Delivered; a Requested order has none.
C4_DriverOnlyOnceClaimed ==
    \A o \in Orders :
        transport_requests[o].driver_id # NULL
        => transport_requests[o].status \in {"Assigned", "En-route", "Delivered"}

\* C4, its case: a delivered order still names the driver who delivered it.
C4_DeliveredKeepsDriver ==
    \E o \in Orders :
        /\ transport_requests[o].status = "Delivered"
        /\ transport_requests[o].driver_id # NULL

\* C5: a request for transport against an Unavailable listing is answered 400,
\* adds no transport request and changes no listing.
C5_UnavailableListingRefused ==
    [][(/\ Answered("request_transport")
        /\ response'.id \in Listings
        /\ organ_listings[response'.id].availability_status = "Unavailable")
       => /\ response'.code = 400
          /\ transport_requests' = transport_requests
          /\ organ_listings' = organ_listings
      ]_vars

\* C5, its case: a second request on a listing, after the first has made its
\* order, is refused.
C5_SecondRequestRefused ==
    /\ response.route = "request_transport"
    /\ response.code = 400
    /\ response.id \in Listings
    /\ organ_listings[response.id].availability_status = "Unavailable"
    /\ \E o \in Orders : transport_requests[o].listing_id = response.id

\* C6: a successful request for transport leaves its listing Unavailable, and
\* no step makes an Unavailable listing anything else.
C6_UnavailableStaysUnavailable ==
    [][/\ \A l \in Listings :
             organ_listings[l].availability_status = "Unavailable"
             => organ_listings'[l].availability_status = "Unavailable"
       /\ (Answered("request_transport") /\ response'.code = 302)
             => organ_listings'[response'.id].availability_status = "Unavailable"
      ]_vars

\* C6, its case: the order made against a listing has gone back to Requested
\* and the listing is still Unavailable.
C6_StillUnavailableAfterReversion ==
    /\ response.route = "driver_update_status"
    /\ response.code = 302
    /\ response.status = "Requested"
    /\ transport_requests[response.id].listing_id # NULL
    /\ organ_listings[transport_requests[response.id].listing_id]
          .availability_status = "Unavailable"

\* C7: no committed state holds a transport request made against a listing
\* that is still Available.
C7_RequestAndFlipTogether ==
    \A o \in Orders :
        transport_requests[o].listing_id # NULL
        => organ_listings[transport_requests[o].listing_id]
              .availability_status # "Available"

\* C8: of two interleaved claims of one Requested order by different drivers,
\* at most one succeeds: a claim that reports success has not landed on an
\* order another driver's claim had already taken.
C8_AtMostOneClaimSucceeds ==
    [][(Answered("driver_claim") /\ response'.code = 302)
       => ~(/\ transport_requests[response'.id].status = "Assigned"
            /\ transport_requests[response'.id].driver_id # NULL
            /\ transport_requests[response'.id].driver_id # response'.driver_id)
      ]_vars

\* C9: a claim by a driver succeeds if and only if, when it is made, the
\* driver holds no Assigned or En-route order and the order exists and is
\* Requested; a success assigns that order to that driver and changes nothing
\* else; a driver who holds an active order is told so.
C9_ClaimSucceedsIff ==
    [][(Answered("driver_claim") /\ response'.driver_id # 0)
       => /\ (response'.code = 302)
             <=> (ActiveOrdersOf(response'.driver_id) = {}
                  /\ IsRequested(response'.id))
          /\ response'.code = 302
             => /\ transport_requests' =
                      [transport_requests EXCEPT
                          ![response'.id].driver_id = response'.driver_id,
                          ![response'.id].status = "Assigned",
                          ![response'.id].updated_at = now]
                /\ UNCHANGED <<organ_listings, hospitals>>
          /\ response'.code # 302
             => UNCHANGED <<transport_requests, organ_listings, hospitals>>
          /\ ActiveOrdersOf(response'.driver_id) # {}
             => /\ response'.code = 400
                /\ response'.msg = "Driver already has an active order"
      ]_vars

\* C9, its case: a driver whose earlier order is Delivered has claimed again.
C9_ClaimsAgainAfterDelivery ==
    /\ response.route = "driver_claim"
    /\ response.code = 302
    /\ \E o \in Orders \ {response.id} :
          /\ transport_requests[o].driver_id = response.driver_id
          /\ transport_requests[o].status = "Delivered"

\* C10: a claim of an order that is not Requested, or that does not exist, is
\* answered 400 for every driver and changes no order; the driver is told of
\* the conflict when he holds an active order, and otherwise that the order is
\* no longer available.
C10_ClaimOfUnavailableOrderFails ==
    [][(Answered("driver_claim") /\ ~IsRequested(response'.id))
       => /\ response'.code = 400
          /\ transport_requests' = transport_requests
          /\ response'.driver_id # 0
             => response'.msg =
                   IF ActiveOrdersOf(response'.driver_id) # {}
                   THEN "Driver already has an active order"
                   ELSE "Order is no longer available"
      ]_vars

\* C10, its case: a driver with no active order has been refused an order that
\* is Assigned, En-route or Delivered.
C10_ClaimOfTakenOrderRefused ==
    /\ response.route = "driver_claim"
    /\ response.code = 400
    /\ response.msg = "Order is no longer available"
    /\ response.id \in Orders
    /\ transport_requests[response.id].status # "Requested"

\* C11: an update of the status of a Delivered order is answered 400 and
\* changes no order, whatever status it asks for; a call that names a driver
\* and a status, valid or not, is told "Delivered orders cannot be modified".
C11_DeliveredOrderRefusesUpdate ==
    [][(/\ Answered("driver_update_status")
        /\ response'.id \in Orders
        /\ transport_requests[response'.id].status = "Delivered")
       => /\ response'.code = 400
          /\ transport_requests' = transport_requests
          /\ (response'.driver_id # 0 /\ response'.status # "")
             => response'.msg = "Delivered orders cannot be modified"
      ]_vars

\* C11, its case: an order that a driver claimed and that went En-route and
\* Delivered has been refused a further update, to a status outside the
\* allowed set.
C11_FurtherUpdateRefused ==
    /\ response.route = "driver_update_status"
    /\ response.code = 400
    /\ response.msg = "Delivered orders cannot be modified"
    /\ response.status = "Cancelled"
    /\ transport_requests[response.id].status = "Delivered"
    /\ transport_requests[response.id].driver_id # NULL

\* the orders of a table that a driver holds, and the orders the portal
\* offers to drivers: Requested, with no driver
HeldIn(rows, d) ==
    {o \in 1..Len(rows) : rows[o].driver_id = d /\ IsActive(rows[o])}

OfferedIn(rows) ==
    {o \in 1..Len(rows) : rows[o].status = "Requested" /\ rows[o].driver_id = NULL}

\* C12: a successful update of an order's status to Requested leaves the order
\* Requested with no driver, whatever its status and driver were; the order is
\* then among the available orders, and no driver, the one who held it
\* included, counts it as active.
C12_ReversionClearsDriver ==
    [][(/\ Answered("driver_update_status")
        /\ response'.code = 302
        /\ response'.status = "Requested")
       => /\ transport_requests'[response'.id].status = "Requested"
          /\ transport_requests'[response'.id].driver_id = NULL
          /\ response'.id \in OfferedIn(transport_requests')
          /\ \A d \in 1..NumDrivers :
                response'.id \notin HeldIn(transport_requests', d)
          /\ transport_requests[response'.id].status # "Delivered"
      ]_vars

\* C12, its case: an order has gone back to Requested, with no driver, on the
\* request of a driver who holds another order.
C12_RevertedOrderIsAvailable ==
    /\ response.route = "driver_update_status"
    /\ response.code = 302
    /\ response.status = "Requested"
    /\ response.id \in OfferedIn(transport_requests)
    /\ HeldIn(transport_requests, response.driver_id) # {}

\* C13: a successful update of an order's status to Assigned, En-route or
\* Delivered changes that order's status and updated_at and nothing else: its
\* driver_id stays as it was, and every other order, every listing, hospital
\* and driver is unchanged.
C13_StatusUpdateChangesStatusOnly ==
    [][(/\ Answered("driver_update_status")
        /\ response'.code = 302
        /\ response'.status \in {"Assigned", "En-route", "Delivered"})
       => /\ transport_requests' =
                [transport_requests EXCEPT
                    ![response'.id].status = response'.status,
                    ![response'.id].updated_at = now]
          /\ transport_requests'[response'.id].driver_id =
                transport_requests[response'.id].driver_id
          /\ UNCHANGED <<organ_listings, hospitals, drivers>>
      ]_vars

\* C13, its case: an order held by one driver has been moved on, a second or
\* more after it was made, by a call that named another driver, and it still
\* names the driver who holds it.
C13_MovedOnByAnotherDriver ==
    /\ response.route = "driver_update_status"
    /\ response.code = 302
    /\ response.status = "En-route"
    /\ transport_requests[response.id].status = "En-route"
    /\ transport_requests[response.id].driver_id # NULL
    /\ transport_requests[response.id].driver_id # response.driver_id
    /\ transport_requests[response.id].updated_at
          > transport_requests[response.id].created_at

\* a call of CreateEmergencyRequest: a POST to /emergency-transport that
\* carries the fields the operation takes
EmergencyCallAnswered ==
    /\ Answered("emergency_transport")
    /\ response'.msg \notin {"emergency_transport.html", "Bad Request"}

\* C14: every emergency request made inserts exactly one transport request,
\* with no listing, priority Emergency, status Requested and no driver, and
\* leaves every listing and every existing transport request as it was.
C14_EmergencyRequestInserted ==
    [][EmergencyCallAnswered
       => /\ Len(transport_requests') = Len(transport_requests) + 1
          /\ SubSeq(transport_requests', 1, Len(transport_requests))
                = transport_requests
          /\ transport_requests'[Len(transport_requests')].listing_id = NULL
          /\ transport_requests'[Len(transport_requests')].priority_status
                = "Emergency"
          /\ transport_requests'[Len(transport_requests')].status = "Requested"
          /\ transport_requests'[Len(transport_requests')].driver_id = NULL
          /\ organ_listings' = organ_listings
      ]_vars

\* a form text that is empty once trimmed
IsBlank(text) == \A i \in 1..Len(text) : text[i] = " "

\* the orders of a table made against a listing
RequestsFor(rows, l) == {o \in 1..Len(rows) : rows[o].listing_id = l}

\* C15: a POST for the transport of an Available listing is answered 400,
\* adds no transport request and leaves the listing Available when its
\* hospital_id is missing or names no hospital, or its destination or its
\* contact_phone is empty once trimmed; otherwise it succeeds, and the store
\* then holds exactly one request against the listing, the one the reply
\* names: Requested, with no driver, the listing's priority and the requesting
\* hospital.  A step that adds transport requests adds one.
C15_RequestNeedsHospitalAddressPhone ==
    [][/\ (/\ Answered("request_transport")
           /\ response'.form.method = "POST"
           /\ response'.id \in Listings
           /\ organ_listings[response'.id].availability_status = "Available")
          => IF \/ response'.form.hospital_id \notin 1..hospitals
                \/ IsBlank(response'.form.destination)
                \/ IsBlank(response'.form.contact_phone)
             THEN /\ response'.code = 400
                  /\ transport_requests' = transport_requests
                  /\ organ_listings' = organ_listings
             ELSE /\ response'.code = 302
                  /\ RequestsFor(transport_requests', response'.id)
                        = {response'.order_id}
                  /\ transport_requests'[response'.order_id] =
                        [listing_id |-> response'.id,
                         hospital |-> response'.form.hospital_id,
                         priority_status |->
                             organ_listings[response'.id].priority_status,
                         status |-> "Requested",
                         driver_id |-> NULL,
                         created_at |->
                             transport_requests'[response'.order_id].created_at,
                         updated_at |->
                             transport_requests'[response'.order_id].updated_at]
       /\ Len(transport_requests') # Len(transport_requests)
          => /\ Len(transport_requests') = Len(transport_requests) + 1
             /\ SubSeq(transport_requests', 1, Len(transport_requests))
                   = transport_requests
      ]_vars

\* C15, its case: a hospital has requested the transport of a listing of
\* another hospital, and the order names the requesting hospital.
C15_RequestNamesRequestingHospital ==
    /\ response.route = "request_transport"
    /\ response.code = 302
    /\ transport_requests[response.order_id].hospital = response.form.hospital_id
    /\ organ_listings[response.id].hospital_id # response.form.hospital_id
    /\ Strip(response.form.destination) # response.form.destination

\* C16: an update of status that names a driver and a status is tested in
\* this order: the order exists (else 404 "Order not found"), it is not
\* Delivered (else 400), the status is Requested, Assigned, En-route or
\* Delivered (else 400 "Invalid status"); a refusal changes no order, so an
\* invalid status leaves the order's status, driver_id and updated_at as they
\* were; a call that passes the three tests succeeds.
C16_UpdateStatusTestsInOrder ==
    [][(/\ Answered("driver_update_status")
        /\ response'.driver_id # 0
        /\ response'.status # "")
       => IF response'.id \notin Orders
          THEN /\ response'.code = 404
               /\ response'.msg = "Order not found"
               /\ transport_requests' = transport_requests
          ELSE IF transport_requests[response'.id].status = "Delivered"
          THEN /\ response'.code = 400
               /\ response'.msg # "Invalid status"
               /\ transport_requests' = transport_requests
          ELSE IF response'.status
                     \notin {"Requested", "Assigned", "En-route", "Delivered"}
          THEN /\ response'.code = 400
               /\ response'.msg = "Invalid status"
               /\ transport_requests' = transport_requests
          ELSE response'.code = 302
      ]_vars

\* C16, its case: an update to a status outside the allowed set has been
\* refused on an order that a driver holds and that was last written before
\* the current second.
C16_InvalidStatusRefused ==
    /\ response.route = "driver_update_status"
    /\ response.code = 400
    /\ response.msg = "Invalid status"
    /\ transport_requests[response.id].status = "Assigned"
    /\ transport_requests[response.id].driver_id # NULL
    /\ transport_requests[response.id].updated_at < now

\* the requests C17 is about, as answered by the step just taken: a request
\* for transport of a listing that does not exist; a POST for transport of an
\* Available listing whose hospital_id names no hospital; a claim, an update
\* of status and a confirmation of an order that does not exist
UnknownListingAnswered ==
    Answered("request_transport") /\ response'.id \notin Listings

UnknownHospitalAnswered ==
    /\ Answered("request_transport")
    /\ response'.id \in Listings
    /\ organ_listings[response'.id].availability_status = "Available"
    /\ response'.form.method = "POST"
    /\ response'.form.hospital_id # 0
    /\ response'.form.hospital_id \notin 1..hospitals

UnknownOrderClaimAnswered ==
    /\ Answered("driver_claim")
    /\ response'.driver_id # 0
    /\ response'.id \notin Orders

UnknownOrderUpdateAnswered ==
    /\ Answered("driver_update_status")
    /\ response'.driver_id # 0
    /\ response'.status # ""
    /\ response'.id \notin Orders

UnknownOrderConfirmationAnswered ==
    Answered("order_confirmation") /\ response'.id \notin Orders

\* C17 as claimed: every request that names a listing, a hospital or an order
\* that does not exist is answered 404.
C17_UnknownIsNotFound ==
    [][(\/ UnknownListingAnswered
        \/ UnknownHospitalAnswered
        \/ UnknownOrderClaimAnswered
        \/ UnknownOrderUpdateAnswered
        \/ UnknownOrderConfirmationAnswered)
       => response'.code = 404
      ]_vars

\* C17 as amended: a request for transport of an unknown listing, and an
\* update of status and a confirmation of an unknown order, are answered 404;
\* a request for transport that names an unknown hospital is answered 400
\* "Selected hospital not found", and a claim of an unknown order 400 (the
\* driver's conflict if he holds an active order, "Order is no longer
\* available" otherwise); none of them changes the store.
C17_UnknownIsRefused ==
    [][/\ UnknownListingAnswered
             => response'.code = 404 /\ response'.msg = "Listing not found"
       /\ UnknownHospitalAnswered
             => response'.code = 400
                /\ response'.msg = "Selected hospital not found"
       /\ UnknownOrderClaimAnswered
             => /\ response'.code = 400
                /\ response'.msg =
                      IF ActiveOrdersOf(response'.driver_id) # {}
                      THEN "Driver already has an active order"
                      ELSE "Order is no longer available"
       /\ UnknownOrderUpdateAnswered
             => response'.code = 404 /\ response'.msg = "Order not found"
       /\ UnknownOrderConfirmationAnswered
             => response'.code = 404 /\ response'.msg = "Order not found"
       /\ (\/ UnknownListingAnswered
           \/ UnknownHospitalAnswered
           \/ UnknownOrderClaimAnswered
           \/ UnknownOrderUpdateAnswered
           \/ UnknownOrderConfirmationAnswered)
             => UNCHANGED <<hospitals, drivers, organ_listings,
                            transport_requests>>
      ]_vars

\* C17, its case: a driver with no active order has claimed an order that
\* does not exist, and has been answered 400.
C17_ClaimOfUnknownOrderIsBadRequest ==
    /\ response.route = "driver_claim"
    /\ response.driver_id # 0
    /\ response.id \notin Orders
    /\ response.code = 400
    /\ response.msg = "Order is no longer available"

\* the portal's rank of a priority: Emergency, Urgent, Critical, the rest
PortalRank(priority_status) ==
    IF priority_status = "Emergency" THEN 1
    ELSE IF priority_status = "Urgent" THEN 2
    ELSE IF priority_status = "Critical" THEN 3
    ELSE 4

\* C18: the available orders of the driver portal are exactly the orders that
\* are Requested and have no driver, each listed once, by rank of priority
\* (Emergency, Urgent, Critical, the rest) and, within a rank, oldest first,
\* whichever driver the page is shown for; reading the page changes nothing.
C18_AvailableOrdersView ==
    [][Answered("driver_portal")
       => /\ {response'.rows[i] : i \in 1..Len(response'.rows)}
                = OfferedIn(transport_requests)
          /\ Len(response'.rows) = Cardinality(OfferedIn(transport_requests))
          /\ \A i, j \in 1..Len(response'.rows) :
                i < j =>
                LET a == transport_requests[response'.rows[i]]
                    b == transport_requests[response'.rows[j]]
                IN \/ PortalRank(a.priority_status) < PortalRank(b.priority_status)
                   \/ /\ PortalRank(a.priority_status) = PortalRank(b.priority_status)
                      /\ a.created_at <= b.created_at
          /\ UNCHANGED <<hospitals, drivers, organ_listings, transport_requests>>
      ]_vars

\* C18, its case: the page, shown for a driver who holds no order, lists an
\* Urgent order before a Critical one that was made earlier and has been put
\* back to Requested since.
C18_UrgentBeforeOlderCritical ==
    /\ response.route = "driver_portal"
    /\ response.id = NULL
    /\ Len(response.rows) = 2
    /\ transport_requests[response.rows[1]].priority_status = "Urgent"
    /\ transport_requests[response.rows[2]].priority_status = "Critical"
    /\ transport_requests[response.rows[2]].created_at
          < transport_requests[response.rows[1]].created_at
    /\ transport_requests[response.rows[2]].updated_at
          > transport_requests[response.rows[2]].created_at

\* the catalog's rank of a priority: Emergency, Critical, Urgent, the rest
CatalogRank(priority_status) ==
    IF priority_status = "Emergency" THEN 1
    ELSE IF priority_status = "Critical" THEN 2
    ELSE IF priority_status = "Urgent" THEN 3
    ELSE 4

\* two letters, and two texts, that differ in case at most
SameLetter(a, b) ==
    a = b \/ {a, b} \in {{"A", "a"}, {"K", "k"}, {"L", "l"}, {"O", "o"}}

SameText(s, t) ==
    Len(s) = Len(t) /\ \A i \in 1..Len(s) : SameLetter(s[i], t[i])

\* the text holds q, whatever the case
Mentions(text, q) ==
    \E i \in 1..(Len(text) + 1) :
        \A k \in 1..Len(q) :
            i + k - 1 <= Len(text) /\ SameLetter(text[i + k - 1], q[k])

\* the listing passes the organ-type filter and the availability filter
PassesFilters(l, args) ==
    /\ args.type \notin {<< >>, All}
          => SameText(organ_listings[l].organ_type, args.type)
    /\ args.availability \in {"Available", "Unavailable"}
          => organ_listings[l].availability_status = args.availability

\* the listing passes the free-text query: no query, or one of its texts
\* holds the query
PassesQuery(l, args) ==
    \/ IsBlank(args.q)
    \/ Mentions(organ_listings[l].organ_type, Strip(args.q))
    \/ Mentions(organ_listings[l].blood_type, Strip(args.q))

\* the catalog lists each of the listings once, by rank of priority and,
\* within a rank, newest first, and reading it changes nothing
CatalogListsSorted(listed) ==
    /\ {response'.rows[i] : i \in 1..Len(response'.rows)} = listed
    /\ Len(response'.rows) = Cardinality(listed)
    /\ \A i, j \in 1..Len(response'.rows) :
          i < j =>
          LET a == organ_listings[response'.rows[i]]
              b == organ_listings[response'.rows[j]]
          IN \/ CatalogRank(a.priority_status) < CatalogRank(b.priority_status)
             \/ /\ CatalogRank(a.priority_status) = CatalogRank(b.priority_status)
                /\ a.created_at >= b.created_at
    /\ UNCHANGED <<hospitals, drivers, organ_listings, transport_requests>>

C20_OneConnectionPerRequest ==
    \A p \in Handlers :
        /\ g[p].connects <= 1
        /\ g[p].connects = 0 <=> g[p]._db = "None"
        /\ handler[p].pc # "idle" => g[p]._db = "open"
        /\ handler[p].pc = "idle" => g[p]._db # "open"

\* C20, its case: an emergency request has failed on its INSERT with an
\* exception, and the connection made for it is closed.
C20_ClosedAfterException ==
    /\ response.route = "emergency_transport"
    /\ response.code = 500
    /\ \E p \in Handlers :
          /\ handler[p].pc = "idle"
          /\ g[p]._db = "closed"
          /\ g[p].connects = 1

\* C21: every listing is referenced by at most one transport request, also
\* when two requests for the transport of the same Available listing
\* interleave between the read of the listing and the writes.
C21_AtMostOneRequestPerListing ==
    \A l \in ListingIds :
        Cardinality(RequestsFor(transport_requests, l)) <= 1

\* what an update of an order's status comes to, told from the orders, the
\* order's id and the status asked for alone: the code of the answer and the
\* orders afterwards
UpdateOutcome(rows, o, s) ==
    IF s = "" THEN [code |-> 400, rows |-> rows]
    ELSE IF o \notin 1..Len(rows) THEN [code |-> 404, rows |-> rows]
    ELSE IF rows[o].status = "Delivered" THEN [code |-> 400, rows |-> rows]
    ELSE IF s \notin {"Requested", "Assigned", "En-route", "Delivered"}
    THEN [code |-> 400, rows |-> rows]
    ELSE [code |-> 302,
          rows |-> [rows EXCEPT
                       ![o].status = s,
                       ![o].driver_id = IF s = "Requested" THEN NULL ELSE @,
                       ![o].updated_at = now]]

\* C22: the answer to an update of an order's status, and the orders after it,
\* are the same for every non-zero driver_id sent with it: they are determined
\* by the orders, the order's id and the new status. No ownership is tested:
\* whoever the driver_id names, every order that is not Delivered is moved on,
\* put back or delivered.
C22_UpdateStatusIgnoresDriver ==
    [][(/\ Answered("driver_update_status")
        /\ response'.driver_id # 0)
       => /\ response'.code =
                UpdateOutcome(transport_requests, response'.id,
                              response'.status).code
          /\ transport_requests' =
                UpdateOutcome(transport_requests, response'.id,
                              response'.status).rows
          /\ UNCHANGED <<organ_listings, hospitals, drivers>>
      ]_vars

\* C22, its case: an order that one driver holds has been delivered by a call
\* whose driver_id names no driver at all.
C22_DeliveredByStranger ==
    /\ response.route = "driver_update_status"
    /\ response.code = 302
    /\ response.status = "Delivered"
    /\ response.driver_id > drivers
    /\ transport_requests[response.id].status = "Delivered"
    /\ transport_requests[response.id].driver_id \notin {NULL, response.driver_id}

=============================================================================
